---- MODULE Spec2Model ----
(***************************************************************************)
(* Model of the colour-discrimination game of src/src/App.tsx: the React   *)
(* state of the App component, its two event handlers (startGame,          *)
(* handleBlockClick), the interval callback and the timer effect.          *)
(*                                                                         *)
(* One step of the model is one event as React processes it: the handler   *)
(* (or the interval callback) runs against the state of the last render,   *)
(* its state updates are applied, the component re-renders, and the timer  *)
(* effect of lines 159-178 runs its cleanup and its body when one of its   *)
(* dependencies [isActive, timeLeft] changed.                              *)
(*                                                                         *)
(* Lightness values and lightness differences are fractional numbers in    *)
(* the source.  They are held here as integers in units of 1/Unit percent. *)
(***************************************************************************)
EXTENDS Integers, Sequences, FiniteSets, TLC

VARIABLES score, timeLeft, isActive, isGameOver, grid, targetIndex,
          difficulty, lastDiff, timerRef, timers, lastEvent

vars == <<score, timeLeft, isActive, isGameOver, grid, targetIndex,
          difficulty, lastDiff, timerRef, timers, lastEvent>>

-----------------------------------------------------------------------------
(* Bounds of the model *)

\* the score stops growing here (a correct click is not taken beyond it)
MaxScore == 2

\* the score a run of correct clicks alone is followed up to (CurveSpec)
MaxCurveScore == 64

\* number of fractional bits of the binary logarithm
FracBits == 10

\* the values Math.random() is sampled at: base colours at the two corners
\* of the range generateColor draws from, target cells at both ends and in
\* the middle of the grid
ColorSamples == { [h |-> 0, s |-> 40, l |-> 30], [h |-> 359, s |-> 79, l |-> 69] }
TargetSamples == {0, 12, 24}
DirectionSamples == {1, -1}

-----------------------------------------------------------------------------
(* Constants of the program *)

GRID_SIZE == 5
INITIAL_TIME == 60
PENALTY == 3

\* one percent of lightness, in model units
Unit == 2 ^ (FracBits + 1)

INITIAL_DIFF == 20 * Unit
MIN_DIFF == (3 * Unit) \div 2

CellCount == GRID_SIZE * GRID_SIZE

\* the indices click events are sampled at: the sampled cells, a cell that is
\* never the target, and one index on each side outside the grid
ClickSamples == TargetSamples \cup {1, -1, CellCount}

NoTimer == 0

-----------------------------------------------------------------------------
(* Helpers *)

Max(a, b) == IF a >= b THEN a ELSE b
Min(a, b) == IF a <= b THEN a ELSE b

\* floor(log2(n)) for n >= 1
RECURSIVE FloorLog2(_)
FloorLog2(n) == IF n <= 1 THEN 0 ELSE 1 + FloorLog2(n \div 2)

\* fixed point 1.0 of the mantissa
MantOne == 2 ^ 14

\* the fractional bits of log2 of a mantissa x in [MantOne, 2*MantOne), by
\* repeated squaring; the result is in units of 2^-FracBits
RECURSIVE FracLog2(_, _)
FracLog2(x, bits) ==
    IF bits = 0 THEN 0
    ELSE LET sq == (x * x) \div MantOne
         IN IF sq >= 2 * MantOne
            THEN 2 ^ (bits - 1) + FracLog2(sq \div 2, bits - 1)
            ELSE FracLog2(sq, bits - 1)

\* Math.log2(n) for an integer n >= 1, in units of 2^-FracBits
Log2(n) ==
    LET k == FloorLog2(n)
    IN k * (2 ^ FracBits) + FracLog2((n * MantOne) \div (2 ^ k), FracBits)

\* Math.max(MIN_DIFF, INITIAL_DIFF - Math.log2(currentScore + 1) * 3.5);
\* 3.5 units of 2^-FracBits are 7 units of 1/Unit
NewDiffUnclamped(currentScore) == INITIAL_DIFF - 7 * Log2(currentScore + 1)
NewDiffRising(currentScore) == Max(MIN_DIFF, INITIAL_DIFF + 7 * Log2(currentScore + 1))
NewDiffOneAhead(currentScore) == Max(MIN_DIFF, INITIAL_DIFF - 7 * Log2(currentScore + 2))
NewDiff(currentScore) == Max(MIN_DIFF, INITIAL_DIFF - 7 * Log2(currentScore + 1))

\* generateColor, with the lightness in model units
generateColor(sample) == [h |-> sample.h, s |-> sample.s, l |-> sample.l * Unit]

getTargetColorNewHue(base, diff, direction) ==
    [h |-> (base.h + 180) % 360, s |-> base.s,
     l |-> Max(0, Min(100 * Unit, base.l + diff * direction))]
getTargetColor(base, diff, direction) ==
    [base EXCEPT !.l = Max(0, Min(100 * Unit, base.l + diff * direction))]

\* the grid generateLevel builds (cells 1..25 stand for indices 0..24)
NewGrid(baseColor, targetIdx, newDiff, direction) ==
    [i \in 1..CellCount |->
        IF i = targetIdx + 1 THEN getTargetColor(baseColor, newDiff, direction)
                             ELSE baseColor]

\* the view that is rendered (lines 233, 268, 304)
activityState ==
    IF ~isActive /\ ~isGameOver THEN "idle"
    ELSE IF isGameOver THEN "over"
    ELSE "active"

\* the difficulty the view reports as "Current Delta" (line 340)
currentDelta == lastDiff

-----------------------------------------------------------------------------
(* The state updates of the handlers *)

\* the early return of handleBlockClick, line 134
ClickIgnoredIdleOnly(active, over) == over
ClickIgnored(active, over) == ~active \/ over

\* setScore(newScore), line 137
NewScoreByTwo(s) == s + 2
NewScore(s) == s + 1

\* setTimeLeft(prev => Math.max(0, prev - 3)), line 150
PenaltyTimeUnclamped(prev) == prev - PENALTY
PenaltyTimeByOne(prev) == Max(0, prev - 1)
PenaltyTime(prev) == Max(0, prev - PENALTY)

\* the updater of the interval callback, lines 162-169
TickExpiresLate(prev) == prev <= 0
TickExpires(prev) == prev <= 1
TickTime(prev) == IF TickExpires(prev) THEN 0 ELSE prev - 1

\* setIsActive(false) and setIsGameOver(true) of the expiring tick, lines 164-165
TickIsActiveKept(prev, active) == active
TickIsActive(prev, active) == IF TickExpires(prev) THEN FALSE ELSE active
TickIsGameOverKept(prev, over) == over
TickIsGameOver(prev, over) == IF TickExpires(prev) THEN TRUE ELSE over

\* the score the next level is generated for, generateLevel(newScore), line 139
GeneratedForStale(newScore, oldScore) == oldScore
GeneratedFor(newScore, oldScore) == newScore

-----------------------------------------------------------------------------
(* The timer effect, lines 159-178 *)

\* clearInterval(timerRef.current), guarded by the null test
ClearIntervalSkipped(live, ref) == live
ClearInterval(live, ref) == IF ref # NoTimer THEN live \ {ref} ELSE live

\* the handle setInterval returns: one that names no live timer and differs
\* from the handle held in timerRef
RECURSIVE FreshFrom(_, _)
FreshFrom(n, used) == IF n \in used THEN FreshFrom(n + 1, used) ELSE n
SetInterval(live, ref) == FreshFrom(1, live \cup {ref})

\* whether the effect body starts a timer, line 160
EffectStartsAtZero(active, time) == active
EffectStarts(active, time) == active /\ time > 0

\* React re-runs the effect when a dependency changed: the cleanup of the
\* previous run first, then the body
TimerEffect(newActive, newTime) ==
    IF <<newActive, newTime>> = <<isActive, timeLeft>>
    THEN UNCHANGED <<timerRef, timers>>
    ELSE LET cleaned == ClearInterval(timers, timerRef)
         IN IF EffectStarts(newActive, newTime)
            THEN LET id == SetInterval(cleaned, timerRef)
                 IN /\ timerRef' = id
                    /\ timers' = cleaned \cup {id}
            ELSE /\ timerRef' = timerRef
                 /\ timers' = ClearInterval(cleaned, timerRef)

-----------------------------------------------------------------------------
(* Operations *)

Init ==
    /\ score = 0
    /\ timeLeft = INITIAL_TIME
    /\ isActive = FALSE
    /\ isGameOver = FALSE
    /\ grid = <<>>
    /\ targetIndex = -1
    /\ difficulty = INITIAL_DIFF
    /\ lastDiff = 0
    /\ timerRef = NoTimer
    /\ timers = {}
    /\ lastEvent = <<"mount">>

generateLevel(currentScore) ==
    \E sample \in ColorSamples, targetIdx \in TargetSamples,
       direction \in DirectionSamples :
        LET baseColor == generateColor(sample)
            newDiff == NewDiff(currentScore)
        IN /\ difficulty' = newDiff
           /\ lastDiff' = newDiff
           /\ grid' = NewGrid(baseColor, targetIdx, newDiff, direction)
           /\ targetIndex' = targetIdx

startGame ==
    /\ score' = 0
    /\ timeLeft' = INITIAL_TIME
    /\ isActive' = TRUE
    /\ isGameOver' = FALSE
    /\ generateLevel(0)
    /\ TimerEffect(TRUE, INITIAL_TIME)
    /\ lastEvent' = <<"start">>

\* the branch of a click on the target, lines 137-139; the score stops at cap
CorrectGuess(cap) ==
    /\ score < cap
    /\ score' = NewScore(score)
    /\ generateLevel(GeneratedFor(NewScore(score), score))
    /\ UNCHANGED <<timeLeft, isActive, isGameOver>>
    /\ TimerEffect(isActive, timeLeft)

handleBlockClick(index) ==
    /\ lastEvent' = <<"click", index>>
    /\ IF ClickIgnored(isActive, isGameOver)
       THEN UNCHANGED <<score, timeLeft, isActive, isGameOver, grid,
                        targetIndex, difficulty, lastDiff, timerRef, timers>>
       ELSE IF index = targetIndex
       THEN CorrectGuess(MaxScore)
       ELSE /\ timeLeft' = PenaltyTime(timeLeft)
            /\ UNCHANGED <<score, isActive, isGameOver, grid, targetIndex,
                           difficulty, lastDiff>>
            /\ TimerEffect(isActive, PenaltyTime(timeLeft))

\* the callback of a live interval timer
tick ==
    /\ \E id \in timers : TRUE
    /\ timeLeft' = TickTime(timeLeft)
    /\ isActive' = TickIsActive(timeLeft, isActive)
    /\ isGameOver' = TickIsGameOver(timeLeft, isGameOver)
    /\ UNCHANGED <<score, grid, targetIndex, difficulty, lastDiff>>
    /\ TimerEffect(TickIsActive(timeLeft, isActive), TickTime(timeLeft))
    /\ lastEvent' = <<"tick">>

click == \E index \in ClickSamples : handleBlockClick(index)

Next == startGame \/ click \/ tick

Spec == Init /\ [][Next]_vars

\* A session in which every click is on the target: the score runs up the
\* difficulty curve to MaxCurveScore.
CurveClick ==
    /\ ~ClickIgnored(isActive, isGameOver)
    /\ lastEvent' = <<"click", targetIndex>>
    /\ CorrectGuess(MaxCurveScore)

CurveNext == startGame \/ CurveClick

CurveSpec == Init /\ [][CurveNext]_vars

\* The events as the view offers them and the clock delivers them: the
\* start buttons exist only in the idle and the over view (lines 233-252,
\* 268-301), the grid buttons carry the indices of the cells (lines
\* 320-325), and a live interval timer keeps firing.
viewStart == activityState # "active" /\ startGame

viewClick ==
    \E index \in ClickSamples \cap (0..(CellCount - 1)) : handleBlockClick(index)

FairNext == viewStart \/ viewClick \/ tick

FairSpec == Init /\ [][FairNext]_vars /\ WF_vars(tick)

\* Two clicks on the same cell handled against the same render, before the
\* component re-renders: both handlers read the isActive, isGameOver, score
\* and targetIndex of that render.  React applies the queued updates in
\* order and renders once: of two values set the last one stays, and
\* updater functions are applied one after the other.

\* setScore(newScore) twice, newScore computed from the same score, line 137
BatchedScoreAdded(s) == NewScore(NewScore(s))
BatchedScore(s) == NewScore(s)

\* setTimeLeft(prev => Math.max(0, prev - 3)) twice, line 150
BatchedPenalty(prev) == PenaltyTime(PenaltyTime(prev))

doubleClick(index) ==
    /\ lastEvent' = <<"clicks", index>>
    /\ IF ClickIgnored(isActive, isGameOver)
       THEN UNCHANGED <<score, timeLeft, isActive, isGameOver, grid,
                        targetIndex, difficulty, lastDiff, timerRef, timers>>
       ELSE IF index = targetIndex
       THEN /\ score < MaxScore
            /\ score' = BatchedScore(score)
            /\ generateLevel(GeneratedFor(BatchedScore(score), score))
            /\ UNCHANGED <<timeLeft, isActive, isGameOver>>
            /\ TimerEffect(isActive, timeLeft)
       ELSE /\ timeLeft' = BatchedPenalty(timeLeft)
            /\ UNCHANGED <<score, isActive, isGameOver, grid, targetIndex,
                           difficulty, lastDiff>>
            /\ TimerEffect(isActive, BatchedPenalty(timeLeft))

doubleClicks ==
    \E index \in ClickSamples \cap (0..(CellCount - 1)) : doubleClick(index)

BatchNext == startGame \/ viewClick \/ doubleClicks \/ tick

BatchSpec == Init /\ [][BatchNext]_vars

-----------------------------------------------------------------------------
(* Properties *)

\* the cells of the grid a click can name
InRange(index) == index >= 0 /\ index < CellCount

\* the event a step delivers, as the handlers record it in lastEvent
Started == lastEvent' = <<"start">>
Ticked == lastEvent' = <<"tick">>
Clicked(index) == lastEvent' = <<"click", index>>

\* the session state a consumer observes, without the level
SessionUnchanged == UNCHANGED <<score, timeLeft, isActive, isGameOver>>
LevelUnchanged == UNCHANGED <<grid, targetIndex, lastDiff>>

\* C1: in the active state with timeLeft <= 3, a click on an index other
\* than the target sets timeLeft to 0 and makes the state over in the same
\* step.
C1_PenaltyToZeroEndsSession ==
    [][\A index \in ClickSamples :
          (/\ activityState = "active"
           /\ timeLeft <= PENALTY
           /\ index # targetIndex
           /\ Clicked(index))
          => (timeLeft' = 0 /\ activityState' = "over")]_vars

\* C2: in the active state a click on an index outside the grid changes
\* nothing of score, timeLeft, activity state, grid, target index and
\* currentDelta.
C2_OutOfRangeClickIsNoOp ==
    [][\A index \in ClickSamples :
          (/\ activityState = "active"
           /\ ~InRange(index)
           /\ Clicked(index))
          => (SessionUnchanged /\ LevelUnchanged)]_vars

\* C3: in the idle and in the over state a click on any index and a tick
\* leave score, timeLeft and grid unchanged.
C3_NoOpsOutsideActive ==
    [][(/\ activityState \in {"idle", "over"}
        /\ (Ticked \/ \E index \in ClickSamples : Clicked(index)))
          => UNCHANGED <<score, timeLeft, grid>>]_vars

C3_Witness ==
    /\ activityState = "over"
    /\ lastEvent[1] = "click"
    /\ score > 0

\* C4: startGame, from whatever state, yields score 0, timeLeft 60, the
\* active state, a level of 25 cells with a target among them, and a
\* currentDelta of 20.
C4_StartResets ==
    [][Started =>
          (/\ score' = 0
           /\ timeLeft' = 60
           /\ activityState' = "active"
           /\ Len(grid') = 25
           /\ InRange(targetIndex')
           /\ currentDelta' = 20 * Unit)]_vars

C4_Witness ==
    /\ lastEvent = <<"start">>
    /\ score = 0
    /\ timeLeft = 60
    /\ timerRef > 1

\* C5: every step leaves score unchanged, resets it to 0 or raises it by
\* exactly 1, and it raises it exactly when the step is a click on the
\* target index in the active state.
C5_ScoreSteps ==
    [][/\ score' = score \/ score' = 0 \/ score' = score + 1
       /\ (score' = score + 1)
             <=> (activityState = "active" /\ Clicked(targetIndex))]_vars

C5_Witness ==
    /\ lastEvent[1] = "click"
    /\ activityState = "active"
    /\ timeLeft = INITIAL_TIME
    /\ score = 2

\* C6: a tick in the active state decrements timeLeft by exactly 1 and
\* leaves score, grid, target index and currentDelta unchanged; when the
\* result is 0 the state is over in the same step and no timer is left to
\* tick; a tick in the over state changes nothing.
C6_Tick ==
    [][/\ (Ticked /\ activityState = "active")
             => (/\ timeLeft' = timeLeft - 1
                 /\ UNCHANGED score
                 /\ LevelUnchanged
                 /\ (timeLeft' = 0 => (activityState' = "over" /\ timers' = {})))
       /\ (Ticked /\ activityState = "over")
             => (SessionUnchanged /\ LevelUnchanged)
       /\ (activityState = "over" /\ ~Started) => timers' = {}]_vars

C6_Witness ==
    /\ lastEvent = <<"tick">>
    /\ activityState = "over"
    /\ timeLeft = 0
    /\ timers = {}

\* C7: in the active state a click on a cell of the grid that is not the
\* target sets timeLeft to max(0, timeLeft - 3) and leaves score, grid,
\* target index and currentDelta unchanged; the state stays active when
\* timeLeft was above 3.
C7_MissPenalty ==
    [][\A index \in ClickSamples :
          (/\ activityState = "active"
           /\ InRange(index)
           /\ index # targetIndex
           /\ Clicked(index))
          => (/\ timeLeft' = Max(0, timeLeft - 3)
              /\ UNCHANGED score
              /\ LevelUnchanged
              /\ (timeLeft > 3 => activityState' = "active"))]_vars

C7_Witness ==
    /\ lastEvent[1] = "click"
    /\ InRange(lastEvent[2])
    /\ lastEvent[2] # targetIndex
    /\ activityState = "active"
    /\ score = 0
    /\ timeLeft = INITIAL_TIME - 3

\* C8: timeLeft is an integer that is never negative.
C8_TimeNeverNegative == timeLeft \in Nat

C8_Witness ==
    /\ lastEvent[1] = "click"
    /\ InRange(lastEvent[2])
    /\ timeLeft = 0
    /\ score = 1

\* C9: at most one interval timer is live, and whenever a timer is created
\* every timer created before it has been cleared.
C9_SingleTimer ==
    [][/\ Cardinality(timers') <= 1
       /\ timerRef' # timerRef => timers' = {timerRef'}]_vars

C9_Witness ==
    /\ lastEvent = <<"tick">>
    /\ timerRef = 2
    /\ timers = {2}

\* C10: a timer is live only in the active state with time left: once the
\* state is not active, or timeLeft is 0 (by a tick or by the penalty of a
\* click), no timer is live, so no tick is delivered.
C10_TimerOnlyWhileActive ==
    timers # {} => (activityState = "active" /\ timeLeft > 0)

C10_Witness ==
    /\ lastEvent[1] = "click"
    /\ timeLeft = 0
    /\ timerRef # NoTimer
    /\ timers = {}

\* C11: every startGame, from whichever state, discards the timer that was
\* running and creates a new one, so that the timer live after a start is
\* never one created before it.
C11_StartRenewsTimer ==
    [][Started => (timerRef' # timerRef /\ timers' = {timerRef'})]_vars

\* a grid of 25 cells whose cell t differs from the common colour of the
\* other 24 in lightness only
IsLevel(g, t) ==
    /\ Len(g) = 25
    /\ t \in 0..24
    /\ \E b \in 1..Len(g) :
          /\ b # t + 1
          /\ \A i \in 1..Len(g) : i # t + 1 => g[i] = g[b]
          /\ g[t + 1].h = g[b].h
          /\ g[t + 1].s = g[b].s
          /\ g[t + 1].l # g[b].l

\* C12: in the active and in the over state the level has exactly 25 cells
\* and a target index in 0..24; the target cell differs from the base colour
\* in lightness only, and the other 24 cells equal the base colour.
C12_LevelShape == activityState # "idle" => IsLevel(grid, targetIndex)

C12_Witness ==
    /\ activityState = "active"
    /\ score = 1
    /\ targetIndex = 12
    /\ grid[1] = [h |-> 359, s |-> 79, l |-> 69 * Unit]
    /\ 2 * grid[13].l = (2 * 69 - 33) * Unit

\* C13 as stated: currentDelta lies within [1.5, 20] in every reachable
\* state.
C13_DeltaAlwaysWithinBounds ==
    3 * Unit <= 2 * currentDelta /\ currentDelta <= 20 * Unit

\* C13, amended: the delta computed for every score lies within [1.5, 20],
\* so currentDelta lies within [1.5, 20] in every state that has a level
\* (active or over); in idle, before the first level, it is 0.
C13_DeltaWithinBounds ==
    /\ activityState # "idle" => C13_DeltaAlwaysWithinBounds
    /\ activityState = "idle" => currentDelta = 0

C13_Witness ==
    /\ lastEvent[1] = "click"
    /\ score = MaxCurveScore
    /\ 2 * currentDelta = 3 * Unit

\* C14: the delta is non-increasing in the score: the delta of the level a
\* correct click installs is no greater than the delta for any smaller
\* score, so within a session currentDelta never increases from one level to
\* the next.
C14_DeltaNeverIncreases ==
    [][(activityState = "active" /\ ~Started)
          => (/\ currentDelta' <= currentDelta
              /\ \A s1 \in 0..score' : NewDiff(score') <= NewDiff(s1))]_vars

C14_Witness ==
    /\ lastEvent[1] = "click"
    /\ score = 3
    /\ currentDelta = 13 * Unit

\* C15: with the ticks of a live timer delivered fairly and no start issued
\* while active, every active session eventually is over.
C15_ActiveLeadsToOver ==
    (activityState = "active") ~> (activityState = "over")

\* C16: the activity state changes only from idle to active, from active to
\* over and from over to active; idle is never entered again, and over is
\* left only by startGame.
C16_StateTransitions ==
    [][/\ activityState' # activityState
             => <<activityState, activityState'>> \in
                   {<<"idle", "active">>, <<"active", "over">>, <<"over", "active">>}
       /\ activityState' = "idle" => activityState = "idle"
       /\ (activityState = "over" /\ activityState' # "over") => Started]_vars

C16_Witness ==
    /\ activityState = "over"
    /\ lastEvent = <<"tick">>
    /\ score = 1

\* C17: no step raises the score by more than 1, also not two clicks on the
\* same cell handled before the view is rendered again, and the step that
\* raises the score installs the level generated for the new score.
C17_OneScorePerLevel ==
    [][/\ score' <= score + 1
       /\ score' = score + 1
             => (/\ IsLevel(grid', targetIndex')
                 /\ currentDelta' = NewDiff(score'))]_vars

C17_Witness ==
    /\ lastEvent[1] = "clicks"
    /\ activityState = "active"
    /\ timeLeft = INITIAL_TIME
    /\ score = 1

\* C18: once started, timeLeft is 0 exactly when the state is over, so an
\* active session always has time left.
C18_ZeroIffOver ==
    activityState # "idle" => (timeLeft = 0 <=> activityState = "over")

\* C19 as stated: currentDelta is the difficulty curve applied to the score
\* in every reachable state, 20 in idle.
C19_DeltaAlwaysFollowsScore ==
    /\ currentDelta = NewDiff(score)
    /\ activityState = "idle" => currentDelta = 20 * Unit

\* C19, amended: in every state that has a level (active or over)
\* currentDelta is the difficulty curve applied to the score: 20 at score 0,
\* so right after a start, and 16.5 at score 1; in idle it is 0.
C19_DeltaFollowsScore ==
    /\ activityState # "idle"
          => (/\ currentDelta = NewDiff(score)
              /\ score = 0 => currentDelta = 20 * Unit
              /\ score = 1 => 2 * currentDelta = 33 * Unit)
    /\ activityState = "idle" => currentDelta = 0

C19_Witness ==
    /\ lastEvent[1] = "click"
    /\ timeLeft = INITIAL_TIME
    /\ score = 1
    /\ 2 * currentDelta = 33 * Unit

\* C20: isActive and isGameOver are never both true.
C20_FlagsExclusive == ~(isActive /\ isGameOver)

C20_Witness ==
    /\ isGameOver
    /\ ~isActive
    /\ lastEvent = <<"tick">>
    /\ score = 2

====
